---- MODULE Spec2Model ----
(***************************************************************************)
(* Model of the ipfs-search crawl engine:                                  *)
(*   - crawler/crawler.go: the Crawler workers (CrawlHash, CrawlFile,       *)
(*     index_references, update_references, handleError, getMetadata);     *)
(*   - extractor/tika/extractor.go: the retrying extraction client;        *)
(*   - config/tika.go (package amqp): the broker Connection with its       *)
(*     connection watcher, and PublisherFactory.NewPublisher.              *)
(* Every call to an external collaborator (index, filesystem, queue,       *)
(* extraction service, sleep) is one atomic step of a worker, so that the  *)
(* steps of concurrent workers interleave at exactly those calls.          *)
(* The crawler, the extraction client and the broker connection are        *)
(* separate programs that share no state: a behaviour follows one of       *)
(* them, named by `running`.                                               *)
(***************************************************************************)
EXTENDS Integers, Sequences, FiniteSets, TLC

\* ------------------------------------------------------------------ bounds
NumWorkers == 2
MaxTasks == 2
MaxRetries == 2
MaxConns == 3

\* ------------------------------------------------------- program constants
PARTIAL_SIZE == 262144
METADATA_MAX_SIZE == 50 * 1024 * 1024
maxReconnect == 100

Workers == 1..NumWorkers

\* --------------------------------------------------------------- Go values
\* A Go slice of references: nil, or a (possibly empty) list.
NilSlice == [isNil |-> TRUE, elems |-> <<>>]
Slice(s) == [isNil |-> FALSE, elems |-> s]

Reference(name, parent_hash) == [Name |-> name, ParentHash |-> parent_hash]

CrawlerArgs(hash, name, size, parent_hash) ==
    [Hash |-> hash, Name |-> name, Size |-> size, ParentHash |-> parent_hash]

NoArgs == CrawlerArgs("", "", 0, "")

\* An error value.  class: "nil" (no error), "shell" (*shell.Error), "url"
\* (*url.Error) or "other"; proto: the message contains "proto"; timeout and
\* temporary: what uerr.Timeout() / uerr.Temporary() report; inner: the type
\* of uerr.Err ("OpError" with its Op, "Errno" with its number, or "none").
Error(class, proto, timeout, temporary, inner, op) ==
    [class |-> class, proto |-> proto, timeout |-> timeout,
     temporary |-> temporary, inner |-> inner, op |-> op]

NoError == Error("nil", FALSE, FALSE, FALSE, "none", "")

ErrProto       == Error("shell", TRUE, FALSE, FALSE, "none", "")
ErrShell       == Error("shell", FALSE, FALSE, FALSE, "none", "")
ErrTimeout     == Error("url", FALSE, TRUE, TRUE, "none", "")
ErrTemporary   == Error("url", FALSE, FALSE, TRUE, "none", "")
ErrDial        == Error("url", FALSE, FALSE, FALSE, "OpError", "dial")
ErrRead        == Error("url", FALSE, FALSE, FALSE, "OpError", "read")
ErrWrite       == Error("url", FALSE, FALSE, FALSE, "OpError", "write")
ErrConnRefused == Error("url", FALSE, FALSE, FALSE, "Errno", "ECONNREFUSED")
ErrErrno       == Error("url", FALSE, FALSE, FALSE, "Errno", "EPIPE")
ErrGeneric     == Error("other", FALSE, FALSE, FALSE, "none", "")
ErrTooLarge    == Error("other", FALSE, FALSE, FALSE, "none", "too large")
ErrStatus      == Error("other", FALSE, FALSE, FALSE, "none", "status")
ErrIndex       == Error("other", FALSE, FALSE, FALSE, "none", "index")
ErrQueue       == Error("other", FALSE, FALSE, FALSE, "none", "queue")
ErrParse       == Error("other", FALSE, FALSE, FALSE, "none", "json")
\* client.Do on a cancelled context (extractor.go 48-49: Timeout() reports
\* true when the request timed out or was canceled).
ErrCanceled    == Error("url", FALSE, TRUE, FALSE, "Canceled", "")

\* What sh.FileList can fail with, and what getMetadata can fail with
\* (client.Get yields *url.Error; a bad status or a JSON error is generic).
FileListErrors == {ErrProto, ErrShell, ErrTimeout, ErrTemporary, ErrDial,
                   ErrRead, ErrWrite, ErrConnRefused, ErrErrno, ErrGeneric}
GetMetadataErrors == {ErrTimeout, ErrTemporary, ErrDial, ErrRead, ErrWrite,
                      ErrConnRefused, ErrErrno, ErrStatus, ErrParse}
\* What e.client.Do can fail with while the context is live.
DoErrors == {ErrTimeout, ErrTemporary, ErrDial, ErrRead, ErrWrite,
             ErrConnRefused, ErrErrno}


\* ------------------------------------------------------------- filesystem
\* The content-addressed filesystem: what sh.FileList("/ipfs/<hash>")
\* returns for each hash (content is fixed by the hash).
Link(hash, name, size, type) ==
    [Hash |-> hash, Name |-> name, Size |-> size, Type |-> type]

UnixLsObject(type, size, links) ==
    [Type |-> type, Size |-> size, Links |-> links]

NoList == UnixLsObject("", 0, <<>>)

FileSystem ==
    [ D1 |-> UnixLsObject("Directory", 10,
                 << Link("FN", "a", 100, "File"),
                    Link("D2", "b", PARTIAL_SIZE, "Directory"),
                    Link("SL", "s", 0, "Symlink") >>),
      D2 |-> UnixLsObject("Directory", PARTIAL_SIZE,
                 << Link("FN", "c", 100, "File") >>),
      FN |-> UnixLsObject("File", 100, <<>>),
      SL |-> UnixLsObject("Symlink", 0, <<>>) ]

Hashes == DOMAIN FileSystem

\* The sizes a delivered WorkItem can state: empty, ordinary, the chunker
\* block size, and over the metadata limit.  CrawlFile takes the size of the
\* item as given; it never lists the hash itself.
Sizes == {0, 100, PARTIAL_SIZE, METADATA_MAX_SIZE + 1}

\* The observations (hash, name, parent) a worker can be handed.  A root
\* item (a hash added by hand) has no name and no parent; every other one is
\* a link of a directory, as CrawlHash 233-251 publishes it.
LinkItems(type) ==
    { CrawlerArgs(FileSystem[d].Links[i].Hash, FileSystem[d].Links[i].Name,
                  FileSystem[d].Links[i].Size, d) :
        <<d, i>> \in { <<d, i>> \in Hashes \X (1..3) :
                          /\ FileSystem[d].Type = "Directory"
                          /\ i <= Len(FileSystem[d].Links)
                          /\ FileSystem[d].Links[i].Type = type } }

\* CrawlHash takes no size.
HashQueueItems ==
    { CrawlerArgs(h, "", 0, "") : h \in Hashes } \cup LinkItems("Directory")

FileQueueItems ==
    { CrawlerArgs(a.Hash, a.Name, size, a.ParentHash) :
        <<a, size>> \in
            ({ CrawlerArgs(h, "", 0, "") :
                 h \in { h \in Hashes : FileSystem[h].Type = "File" } }
             \cup LinkItems("File")) \X Sizes }

\* ------------------------------------------------------------------ index
\* Properties of an index document.  A key that is absent is FALSE / -1 / "".
Properties(hasRefs, refs, size, hasLinks, links, meta, error) ==
    [hasReferences |-> hasRefs, references |-> refs, size |-> size,
     hasLinks |-> hasLinks, links |-> links, meta |-> meta, error |-> error]

NoProperties == Properties(FALSE, <<>>, -1, FALSE, <<>>, "", "")

NoRecord == [found |-> FALSE, type |-> "", properties |-> NoProperties]

\* A partial-document update: the keys of the new document replace the old.
MergeProperties(old, new) ==
    Properties(old.hasReferences \/ new.hasReferences,
               IF new.hasReferences THEN new.references ELSE old.references,
               IF new.size >= 0 THEN new.size ELSE old.size,
               old.hasLinks \/ new.hasLinks,
               IF new.hasLinks THEN new.links ELSE old.links,
               IF new.meta # "" THEN new.meta ELSE old.meta,
               IF new.error # "" THEN new.error ELSE old.error)

\* indexer.IndexItem(type, hash, properties): update-or-insert of the record.
IndexItem(idx, type, hash, properties) ==
    [idx EXCEPT ![hash] =
        [found |-> TRUE, type |-> type,
         properties |-> MergeProperties(@.properties, properties)]]

\* indexer.GetReferences(hash): the "references" of the record and its type;
\* nil references when there is no record (or none in the record).
GetReferences(idx, hash) ==
    IF idx[hash].found /\ idx[hash].properties.hasReferences
    THEN [references |-> Slice(idx[hash].properties.references),
          item_type |-> idx[hash].type]
    ELSE [references |-> NilSlice,
          item_type |-> IF idx[hash].found THEN idx[hash].type ELSE ""]

\* ------------------------------------------------------- crawler, pure part
\* update_references without its loop over the existing references: every
\* observation with a parent appends.
update_references_always_appends(references, name, parent_hash) ==
    LET refs == IF references.isNil THEN Slice(<<>>) ELSE references
    IN  IF parent_hash = ""
        THEN [references |-> refs, updated |-> FALSE]
        ELSE [references |->
                  Slice(Append(refs.elems, Reference(name, parent_hash))),
              updated |-> TRUE]

\* crawler.go 61-87
update_references(references, name, parent_hash) ==
    LET refs == IF references.isNil THEN Slice(<<>>) ELSE references
    IN  IF parent_hash = ""
        THEN [references |-> refs, updated |-> FALSE]
        ELSE IF \E i \in 1..Len(refs.elems) :
                    refs.elems[i].ParentHash = parent_hash
        THEN [references |-> refs, updated |-> FALSE]
        ELSE [references |->
                  Slice(Append(refs.elems, Reference(name, parent_hash))),
              updated |-> TRUE]

\* handleError that hands a temporary URL error back to the caller instead
\* of asking for another attempt.
handleError_returns_temporary(e) ==
    IF e.class = "shell" /\ e.proto
    THEN [panic |-> TRUE, try_again |-> FALSE, err |-> e]
    ELSE IF e.class = "url"
    THEN IF e.timeout \/ e.temporary
         THEN [panic |-> FALSE, try_again |-> FALSE, err |-> e]
         ELSE IF e.inner = "OpError" /\ e.op \in {"dial", "read"}
         THEN [panic |-> FALSE, try_again |-> TRUE, err |-> NoError]
         ELSE IF e.inner = "Errno" /\ e.op = "ECONNREFUSED"
         THEN [panic |-> FALSE, try_again |-> TRUE, err |-> NoError]
         ELSE [panic |-> FALSE, try_again |-> FALSE, err |-> e]
    ELSE [panic |-> FALSE, try_again |-> FALSE, err |-> e]

\* handleError without its protocol-error branch: the error is handed back
\* like any other.
handleError_proto_returned(e) ==
    IF e.class = "url"
    THEN IF e.timeout
         THEN [panic |-> FALSE, try_again |-> FALSE, err |-> e]
         ELSE IF e.temporary
         THEN [panic |-> FALSE, try_again |-> TRUE, err |-> NoError]
         ELSE IF e.inner = "OpError" /\ e.op \in {"dial", "read"}
         THEN [panic |-> FALSE, try_again |-> TRUE, err |-> NoError]
         ELSE IF e.inner = "Errno" /\ e.op = "ECONNREFUSED"
         THEN [panic |-> FALSE, try_again |-> TRUE, err |-> NoError]
         ELSE [panic |-> FALSE, try_again |-> FALSE, err |-> e]
    ELSE [panic |-> FALSE, try_again |-> FALSE, err |-> e]

\* handleError testing Temporary() before Timeout(): a timeout that also
\* reports temporary is retried.
handleError_temporary_first(e) ==
    IF e.class = "shell" /\ e.proto
    THEN [panic |-> TRUE, try_again |-> FALSE, err |-> e]
    ELSE IF e.class = "url"
    THEN IF e.temporary
         THEN [panic |-> FALSE, try_again |-> TRUE, err |-> NoError]
         ELSE IF e.timeout
         THEN [panic |-> FALSE, try_again |-> FALSE, err |-> e]
         ELSE IF e.inner = "OpError" /\ e.op \in {"dial", "read"}
         THEN [panic |-> FALSE, try_again |-> TRUE, err |-> NoError]
         ELSE IF e.inner = "Errno" /\ e.op = "ECONNREFUSED"
         THEN [panic |-> FALSE, try_again |-> TRUE, err |-> NoError]
         ELSE [panic |-> FALSE, try_again |-> FALSE, err |-> e]
    ELSE [panic |-> FALSE, try_again |-> FALSE, err |-> e]

\* crawler.go 90-140: the decision of handleError (its index write and panic
\* are the step HandleErrorPanic).
handleError(e) ==
    IF e.class = "shell" /\ e.proto
    THEN [panic |-> TRUE, try_again |-> FALSE, err |-> e]
    ELSE IF e.class = "url"
    THEN IF e.timeout
         THEN [panic |-> FALSE, try_again |-> FALSE, err |-> e]
         ELSE IF e.temporary
         THEN [panic |-> FALSE, try_again |-> TRUE, err |-> NoError]
         ELSE IF e.inner = "OpError" /\ e.op \in {"dial", "read"}
         THEN [panic |-> FALSE, try_again |-> TRUE, err |-> NoError]
         ELSE IF e.inner = "Errno" /\ e.op = "ECONNREFUSED"
         THEN [panic |-> FALSE, try_again |-> TRUE, err |-> NoError]
         ELSE [panic |-> FALSE, try_again |-> FALSE, err |-> e]
    ELSE [panic |-> FALSE, try_again |-> FALSE, err |-> e]

\* The partial rule with its parent test inverted.
SkipPartial_referenced(size, parent_hash) ==
    size = PARTIAL_SIZE /\ parent_hash # ""

\* crawler.go 317 and 269: unreferenced partial content is skipped.
SkipPartial(size, parent_hash) == size = PARTIAL_SIZE /\ parent_hash = ""

\* The size test of CrawlFile letting empty files through to extraction.
NeedsMetadata_also_empty(size) == size >= 0

\* crawler.go 338: only a file with content is sent to the extraction service.
NeedsMetadata(size) == size > 0

\* The size limit off by one.
TooLarge_off_by_one(size) == size > METADATA_MAX_SIZE + 1

\* crawler.go 339: really large files fail hard.
TooLarge(size) == size > METADATA_MAX_SIZE

\* Every typed link goes to the file queue.
LinkQueue_all_files(type) ==
    IF type \in {"File", "Directory"} THEN "fq" ELSE ""

\* crawler.go 240-258: the queue a link of a directory is published to
\* ("" = the link is skipped).
LinkQueue(type) ==
    IF type = "File" THEN "fq" ELSE IF type = "Directory" THEN "hq" ELSE ""

\* index_references writing the record back whenever the hash is indexed,
\* whether or not a reference was added.
index_references_always_writes(idx, hash, name, parent_hash) ==
    LET got == GetReferences(idx, hash)
        indexed == ~got.references.isNil
        upd == update_references(got.references, name, parent_hash)
    IN  [references |-> upd.references,
         already_indexed |-> indexed,
         references_updated |-> upd.updated,
         item_type |-> got.item_type,
         write |-> indexed,
         properties |-> Properties(TRUE, upd.references.elems, -1,
                                   FALSE, <<>>, "", "")]

\* crawler.go 142-179: what index_references does against index state idx:
\* the lookup, the merge of the new reference, and whether it writes the
\* record back (write) with which type and properties.
index_references(idx, hash, name, parent_hash) ==
    LET got == GetReferences(idx, hash)
        indexed == ~got.references.isNil
        upd == update_references(got.references, name, parent_hash)
    IN  [references |-> upd.references,
         already_indexed |-> indexed,
         references_updated |-> upd.updated,
         item_type |-> got.item_type,
         write |-> indexed /\ upd.updated,
         properties |-> Properties(TRUE, upd.references.elems, -1,
                                   FALSE, <<>>, "", "")]

\* index_references going on as if nothing was found when the lookup fails.
index_references_failed_swallowed(e) ==
    [references |-> NilSlice, already_indexed |-> FALSE, err |-> NoError]

\* crawler.go 145-148: what index_references returns when GetReferences
\* fails with e.
index_references_failed(e) ==
    [references |-> NilSlice, already_indexed |-> FALSE, err |-> e]

\* The file task carrying the size the item came with.
FileTask_given_size(a, l) ==
    CrawlerArgs(a.Hash, a.Name, a.Size, a.ParentHash)

\* crawler.go 218-223: the task CrawlHash publishes for a hash that lists as
\* a file: the item with the listed size.
FileTask(a, l) == CrawlerArgs(a.Hash, a.Name, l.Size, a.ParentHash)

\* crawler.go 56-58
hashUrl(hash) == "/ipfs/" \o hash

\* crawler.go 344-349
metadataPath(hash, name, parent_hash) ==
    IF name # "" /\ parent_hash # ""
    THEN "/ipfs/" \o parent_hash \o "/" \o name
    ELSE "/ipfs/" \o hash

\* One observed call of a collaborator, in the order the worker made it.
Event(ev, q, item, type, target, properties, ok) ==
    [ev |-> ev, q |-> q, item |-> item, type |-> type, target |-> target,
     properties |-> properties, ok |-> ok]

EvGetReferences(hash, ok) ==
    Event("GetReferences", "", NoArgs, "", hash, NoProperties, ok)
EvIndexItem(type, hash, properties, ok) ==
    Event("IndexItem", "", NoArgs, type, hash, properties, ok)
EvFileList(url, ok) == Event("FileList", "", NoArgs, "", url, NoProperties, ok)
EvGetMetadata(path, ok) ==
    Event("getMetadata", "", NoArgs, "", path, NoProperties, ok)
EvAddTask(q, item, ok) == Event("AddTask", q, item, "", "", NoProperties, ok)
EvDo(url, ok) == Event("Do", "", NoArgs, "", url, NoProperties, ok)
EvCancel == Event("Cancel", "", NoArgs, "", "", NoProperties, TRUE)
EvSleep == Event("Sleep", "", NoArgs, "", "", NoProperties, TRUE)


\* ------------------------------------------------------------------ state
VARIABLES
    running,          \* which program this behaviour follows
    \* crawler
    index,            \* the index collaborator: hash -> record
    fq, hq,           \* file queue and hash (directory) queue: published tasks
    pc,               \* per worker: where it is in CrawlHash / CrawlFile
    op,               \* per worker: "CrawlHash" or "CrawlFile"
    args,             \* per worker: the CrawlerArgs being processed
    references,       \* per worker: local `references`
    already_indexed,  \* per worker: local `already_indexed`
    item_type,        \* per worker: local `item_type` of index_references
    references_updated, \* per worker: local `references_updated`
    err,              \* per worker: local `err` / the returned error
    list,             \* per worker: local `list` of CrawlHash
    linkIdx,          \* per worker: position of the range loop over list.Links
    tries,            \* per worker: retryable failures met by this task
    metadata,         \* per worker: what getMetadata decoded ("" = empty map)
    log,              \* per worker: the collaborator calls of this task
    tasks,            \* number of WorkItems delivered so far
    listed,           \* hash -> number of tasks that listed it
    extracted,        \* hash -> number of tasks that extracted it
    \* extraction client
    ePc,              \* where Extract / retryingGet is
    retries,          \* local `retries` of retryingGet
    ctxDone,          \* the caller's context is cancelled
    status,           \* resp.StatusCode (0 = no response)
    eErr,             \* the error Extract returned
    eLog,             \* the calls of Extract, and the cancellation, in order
    \* broker connection
    conns,            \* the broker connections dialed so far: id -> state
    conn,             \* c.conn: the id of a dialed connection, 0 = nil
    errCnt,           \* local `errCnt` of monitorConn
    mPc,              \* where the monitorConn goroutine is
    pPc,              \* where NewPublisher is
    closer,           \* where the closing goroutine of NewPublisher is
    amqpCtxDone,      \* the context passed to NewPublisher is cancelled
    redialsFailed     \* number of failed redials of the watcher so far

stores == <<index, fq, hq>>
resolved == <<references, already_indexed, item_type, references_updated>>
counters == <<tasks, listed, extracted>>

crawlerVars == <<stores, pc, op, args, resolved, err, list, linkIdx, tries,
                 metadata, log, counters>>

extractorVars == <<ePc, retries, ctxDone, status, eErr, eLog>>

amqpVars == <<conns, conn, errCnt, mPc, pPc, closer, amqpCtxDone,
              redialsFailed>>

vars == <<running, crawlerVars, extractorVars, amqpVars>>

Programs == {"crawler", "extractor", "amqp"}

Init ==
    /\ running \in Programs
    /\ index = [h \in Hashes |-> NoRecord]
    /\ fq = <<>>
    /\ hq = <<>>
    /\ pc = [w \in Workers |-> "idle"]
    /\ op = [w \in Workers |-> ""]
    /\ args = [w \in Workers |-> NoArgs]
    /\ references = [w \in Workers |-> NilSlice]
    /\ already_indexed = [w \in Workers |-> FALSE]
    /\ item_type = [w \in Workers |-> ""]
    /\ references_updated = [w \in Workers |-> FALSE]
    /\ err = [w \in Workers |-> NoError]
    /\ list = [w \in Workers |-> NoList]
    /\ linkIdx = [w \in Workers |-> 0]
    /\ tries = [w \in Workers |-> 0]
    /\ metadata = [w \in Workers |-> ""]
    /\ log = [w \in Workers |-> <<>>]
    /\ tasks = 0
    /\ listed = [h \in Hashes |-> 0]
    /\ extracted = [h \in Hashes |-> 0]
    /\ ePc = "idle"
    /\ retries = 0
    /\ ctxDone = FALSE
    /\ status = 0
    /\ eErr = NoError
    /\ eLog = <<>>
    /\ conns = [id \in 1..MaxConns |-> "none"]
    /\ conn = 0
    /\ errCnt = 0
    /\ mPc = "none"
    /\ pPc = "idle"
    /\ closer = "none"
    /\ amqpCtxDone = FALSE
    /\ redialsFailed = 0

\* A step of a crawler worker leaves the extraction client alone.
CrawlerStep ==
    /\ running = "crawler"
    /\ UNCHANGED <<running, extractorVars, amqpVars>>

\* The worker returns `e` from CrawlHash / CrawlFile.
Return(w, e) ==
    /\ pc' = [pc EXCEPT ![w] = "done"]
    /\ err' = [err EXCEPT ![w] = e]

Goto(w, label) ==
    /\ pc' = [pc EXCEPT ![w] = label]
    /\ err' = [err EXCEPT ![w] = NoError]

Logged(w, e) == log' = [log EXCEPT ![w] = Append(@, e)]

HasEvent(w, ev) == \E i \in 1..Len(log[w]) : log[w][i].ev = ev

\* A WorkItem is delivered to worker w, which calls CrawlHash (crawler.go 182).
CrawlHashEnter(w) ==
    /\ CrawlerStep
    /\ pc[w] = "idle"
    /\ tasks < MaxTasks
    /\ \E a \in HashQueueItems : args' = [args EXCEPT ![w] = a]
    /\ op' = [op EXCEPT ![w] = "CrawlHash"]
    /\ pc' = [pc EXCEPT ![w] = "index_references"]
    /\ tasks' = tasks + 1
    /\ UNCHANGED <<stores, resolved, err, list, linkIdx, tries, metadata, log,
                   listed, extracted>>

\* A file WorkItem is delivered to worker w, which calls CrawlFile
\* (crawler.go 316-322): unreferenced partial content returns at once.
CrawlFileEnter(w) ==
    /\ CrawlerStep
    /\ pc[w] = "idle"
    /\ tasks < MaxTasks
    /\ \E a \in FileQueueItems :
          /\ args' = [args EXCEPT ![w] = a]
          /\ pc' = [pc EXCEPT ![w] =
                       IF SkipPartial(a.Size, a.ParentHash)
                       THEN "done" ELSE "index_references"]
    /\ op' = [op EXCEPT ![w] = "CrawlFile"]
    /\ tasks' = tasks + 1
    /\ UNCHANGED <<stores, resolved, err, list, linkIdx, tries, metadata, log,
                   listed, extracted>>

\* Where CrawlHash (193-201) or CrawlFile (334-353) goes once index_references
\* has returned without error and the hash is not already indexed.
AfterIndexReferences(o, size) ==
    IF o = "CrawlHash"
    THEN "FileList"
    ELSE IF NeedsMetadata(size)
         THEN IF TooLarge(size) THEN "too_large" ELSE "getMetadata"
         ELSE "IndexFile"

\* index_references up to its IndexItem call (crawler.go 142-166), and the
\* caller's checks on its result (183-191, 324-342).
IndexReferencesLookup(w) ==
    /\ CrawlerStep
    /\ pc[w] = "index_references"
    /\ \/ \* GetReferences fails: index_references returns the error, and
          \* so does its caller (185-187, 326-328)
          LET r == index_references_failed(ErrIndex)
              next == AfterIndexReferences(op[w], args[w].Size)
          IN  /\ Logged(w, EvGetReferences(args[w].Hash, FALSE))
              /\ IF r.err # NoError
                 THEN Return(w, r.err)
                 ELSE IF next = "too_large"
                 THEN Return(w, ErrTooLarge)
                 ELSE Goto(w, next)
              /\ UNCHANGED resolved
       \/ LET r == index_references(index, args[w].Hash, args[w].Name,
                                    args[w].ParentHash)
              next == IF r.already_indexed
                      THEN IF r.write THEN "IndexReferences" ELSE "done"
                      ELSE AfterIndexReferences(op[w], args[w].Size)
          IN  /\ references' = [references EXCEPT ![w] = r.references]
              /\ already_indexed' =
                     [already_indexed EXCEPT ![w] = r.already_indexed]
              /\ item_type' = [item_type EXCEPT ![w] = r.item_type]
              /\ references_updated' =
                     [references_updated EXCEPT ![w] = r.references_updated]
              /\ Logged(w, EvGetReferences(args[w].Hash, TRUE))
              /\ IF next = "too_large"
                 THEN Return(w, ErrTooLarge)
                 ELSE Goto(w, next)
    /\ UNCHANGED <<stores, op, args, list, linkIdx, tries, metadata, counters>>

\* index_references 159-178 for a hash that is indexed and got a new
\* reference: IndexItem(item_type, hash, {references}); the caller returns.
IndexReferencesUpdate(w) ==
    /\ CrawlerStep
    /\ pc[w] = "IndexReferences"
    /\ LET properties == Properties(TRUE, references[w].elems, -1,
                                    FALSE, <<>>, "", "")
       IN \E ok \in BOOLEAN :
            /\ Logged(w, EvIndexItem(item_type[w], args[w].Hash, properties, ok))
            /\ index' = IF ok
                        THEN IndexItem(index, item_type[w], args[w].Hash,
                                       properties)
                        ELSE index
            /\ Return(w, IF ok THEN NoError ELSE ErrIndex)
    /\ UNCHANGED <<fq, hq, op, args, resolved, list, linkIdx, tries, metadata,
                   counters>>

\* The result of one attempt of a retried call: success, or an error that
\* handleError classifies.  Retryable failures are bounded by MaxRetries.
Attempt(w, errors, e) ==
    /\ e \in {NoError} \cup errors
    /\ handleError(e).try_again => tries[w] < MaxRetries

\* CrawlHash 199-229: one sh.FileList attempt, handleError on its result,
\* and on success the switch on list.Type up to the next collaborator call.
FileList(w) ==
    /\ CrawlerStep
    /\ pc[w] = "FileList"
    /\ listed' = IF HasEvent(w, "FileList") THEN listed
                 ELSE [listed EXCEPT ![args[w].Hash] = @ + 1]
    /\ \E e \in {NoError} \cup FileListErrors :
          LET h == handleError(e) IN
          /\ Attempt(w, FileListErrors, e)
          /\ Logged(w, EvFileList(hashUrl(args[w].Hash), e = NoError))
          /\ IF h.panic
             THEN /\ pc' = [pc EXCEPT ![w] = "panic"]
                  /\ err' = [err EXCEPT ![w] = e]
                  /\ UNCHANGED <<list, linkIdx, tries>>
             ELSE IF h.try_again
             THEN /\ pc' = [pc EXCEPT ![w] = "Sleep"]
                  /\ err' = [err EXCEPT ![w] = h.err]
                  /\ tries' = [tries EXCEPT ![w] = @ + 1]
                  /\ UNCHANGED <<list, linkIdx>>
             ELSE IF h.err # NoError
             THEN /\ Return(w, h.err)
                  /\ UNCHANGED <<list, linkIdx, tries>>
             ELSE LET l == FileSystem[args[w].Hash] IN
                  /\ list' = [list EXCEPT ![w] = l]
                  /\ linkIdx' = [linkIdx EXCEPT ![w] = 1]
                  /\ UNCHANGED tries
                  /\ IF l.Type = "File"
                     THEN Goto(w, "AddTaskFile")
                     ELSE IF l.Type = "Directory"
                     THEN Goto(w, "Links")
                     ELSE Return(w, NoError)
    /\ UNCHANGED <<stores, op, args, resolved, metadata, tasks, extracted>>

\* handleError 91-102 on a protocol error: the "invalid" record is written
\* (the result of IndexItem is ignored), then the worker panics.
HandleErrorPanic(w) ==
    /\ CrawlerStep
    /\ pc[w] = "panic"
    /\ LET properties == Properties(FALSE, <<>>, -1, FALSE, <<>>, "", "proto")
       IN \E ok \in BOOLEAN :
            /\ Logged(w, EvIndexItem("invalid", args[w].Hash, properties, ok))
            /\ index' = IF ok
                        THEN IndexItem(index, "invalid", args[w].Hash,
                                       properties)
                        ELSE index
    /\ pc' = [pc EXCEPT ![w] = "panicked"]
    /\ UNCHANGED <<fq, hq, op, args, resolved, err, list, linkIdx, tries,
                   metadata, counters>>

\* CrawlHash 205-208 / CrawlFile 357-360: time.Sleep(RECONNECT_WAIT), then
\* the loop makes its next attempt.
Sleep(w) ==
    /\ CrawlerStep
    /\ pc[w] = "Sleep"
    /\ Logged(w, EvSleep)
    /\ pc' = [pc EXCEPT ![w] =
                 IF op[w] = "CrawlHash" THEN "FileList" ELSE "getMetadata"]
    /\ UNCHANGED <<stores, op, args, resolved, err, list, linkIdx, tries,
                   metadata, counters>>

\* CrawlHash 216-229: the hash is a file; it goes to the file queue.
AddTaskFile(w) ==
    /\ CrawlerStep
    /\ pc[w] = "AddTaskFile"
    /\ LET a == FileTask(args[w], list[w])
       IN \E ok \in BOOLEAN :
            /\ Logged(w, EvAddTask("fq", a, ok))
            /\ fq' = IF ok THEN Append(fq, a) ELSE fq
            /\ Return(w, IF ok THEN NoError ELSE ErrQueue)
    /\ UNCHANGED <<index, hq, op, args, resolved, list, linkIdx, tries,
                   metadata, counters>>

\* CrawlHash 232-259: one iteration of the loop over list.Links.
PublishLink(w) ==
    /\ CrawlerStep
    /\ pc[w] = "Links"
    /\ linkIdx[w] <= Len(list[w].Links)
    /\ LET link == list[w].Links[linkIdx[w]]
           a == CrawlerArgs(link.Hash, link.Name, link.Size, args[w].Hash)
       IN  \/ /\ LinkQueue(link.Type) = "fq"
              /\ \E ok \in BOOLEAN :
                   /\ Logged(w, EvAddTask("fq", a, ok))
                   /\ fq' = IF ok THEN Append(fq, a) ELSE fq
                   /\ IF ok
                      THEN /\ linkIdx' = [linkIdx EXCEPT ![w] = @ + 1]
                           /\ UNCHANGED <<pc, err>>
                      ELSE /\ Return(w, ErrQueue)
                           /\ UNCHANGED linkIdx
              /\ UNCHANGED hq
           \/ /\ LinkQueue(link.Type) = "hq"
              \* 251: the result of hq.AddTask is dropped; 252 tests the
              \* `err` left by the statements before it.
              /\ \E ok \in BOOLEAN :
                   /\ Logged(w, EvAddTask("hq", a, ok))
                   /\ hq' = IF ok THEN Append(hq, a) ELSE hq
              /\ IF err[w] # NoError
                 THEN /\ Return(w, err[w])
                      /\ UNCHANGED linkIdx
                 ELSE /\ linkIdx' = [linkIdx EXCEPT ![w] = @ + 1]
                      /\ UNCHANGED <<pc, err>>
              /\ UNCHANGED fq
           \/ /\ LinkQueue(link.Type) = ""
              /\ linkIdx' = [linkIdx EXCEPT ![w] = @ + 1]
              /\ UNCHANGED <<fq, hq, pc, err, log>>
    /\ UNCHANGED <<index, op, args, resolved, list, tries, metadata, counters>>

\* CrawlHash 261-288: after the loop, the partial rule, then the directory
\* record.
IndexDirectory(w) ==
    /\ CrawlerStep
    /\ pc[w] = "Links"
    /\ linkIdx[w] > Len(list[w].Links)
    /\ LET properties == Properties(TRUE, references[w].elems, list[w].Size,
                                    TRUE, list[w].Links, "", "")
       IN IF SkipPartial(list[w].Size, args[w].ParentHash)
          THEN /\ Return(w, NoError)
               /\ UNCHANGED <<index, log>>
          ELSE \E ok \in BOOLEAN :
                 /\ Logged(w, EvIndexItem("directory", args[w].Hash,
                                          properties, ok))
                 /\ index' = IF ok
                             THEN IndexItem(index, "directory", args[w].Hash,
                                            properties)
                             ELSE index
                 /\ Return(w, IF ok THEN NoError ELSE ErrIndex)
    /\ UNCHANGED <<fq, hq, op, args, resolved, list, linkIdx, tries, metadata,
                   counters>>

\* CrawlFile 351-365: one getMetadata attempt (290-313) and handleError on
\* its result.
GetMetadata(w) ==
    /\ CrawlerStep
    /\ pc[w] = "getMetadata"
    /\ extracted' = IF HasEvent(w, "getMetadata") THEN extracted
                    ELSE [extracted EXCEPT ![args[w].Hash] = @ + 1]
    /\ \E e \in {NoError} \cup GetMetadataErrors :
          LET h == handleError(e) IN
          /\ Attempt(w, GetMetadataErrors, e)
          /\ Logged(w, EvGetMetadata(metadataPath(args[w].Hash, args[w].Name,
                                                  args[w].ParentHash),
                                     e = NoError))
          /\ IF h.panic
             THEN /\ pc' = [pc EXCEPT ![w] = "panic"]
                  /\ err' = [err EXCEPT ![w] = e]
                  /\ UNCHANGED <<tries, metadata>>
             ELSE IF h.try_again
             THEN /\ pc' = [pc EXCEPT ![w] = "Sleep"]
                  /\ err' = [err EXCEPT ![w] = h.err]
                  /\ tries' = [tries EXCEPT ![w] = @ + 1]
                  /\ UNCHANGED metadata
             ELSE IF h.err # NoError
             THEN /\ Return(w, h.err)
                  /\ UNCHANGED <<tries, metadata>>
             ELSE /\ Goto(w, "IndexFile")
                  /\ metadata' = [metadata EXCEPT ![w] = "x"]
                  /\ UNCHANGED tries
    /\ UNCHANGED <<stores, op, args, resolved, list, linkIdx, tasks, listed>>

\* CrawlFile 390-400: the file record.
IndexFile(w) ==
    /\ CrawlerStep
    /\ pc[w] = "IndexFile"
    /\ LET properties == Properties(TRUE, references[w].elems, args[w].Size,
                                    FALSE, <<>>, metadata[w], "")
       IN \E ok \in BOOLEAN :
            /\ Logged(w, EvIndexItem("file", args[w].Hash, properties, ok))
            /\ index' = IF ok
                        THEN IndexItem(index, "file", args[w].Hash, properties)
                        ELSE index
            /\ Return(w, IF ok THEN NoError ELSE ErrIndex)
    /\ UNCHANGED <<fq, hq, op, args, resolved, list, linkIdx, tries, metadata,
                   counters>>

\* The call has returned; the worker waits for its next delivery.
Finish(w) ==
    /\ CrawlerStep
    /\ pc[w] = "done"
    /\ pc' = [pc EXCEPT ![w] = "idle"]
    /\ op' = [op EXCEPT ![w] = ""]
    /\ args' = [args EXCEPT ![w] = NoArgs]
    /\ references' = [references EXCEPT ![w] = NilSlice]
    /\ already_indexed' = [already_indexed EXCEPT ![w] = FALSE]
    /\ item_type' = [item_type EXCEPT ![w] = ""]
    /\ references_updated' = [references_updated EXCEPT ![w] = FALSE]
    /\ err' = [err EXCEPT ![w] = NoError]
    /\ list' = [list EXCEPT ![w] = NoList]
    /\ linkIdx' = [linkIdx EXCEPT ![w] = 0]
    /\ tries' = [tries EXCEPT ![w] = 0]
    /\ metadata' = [metadata EXCEPT ![w] = ""]
    /\ log' = [log EXCEPT ![w] = <<>>]
    /\ UNCHANGED <<stores, counters>>


\* ------------------------------------------------------ extraction client
\* Whether retryingGet retries after an error of client.Do: the retryable
\* class of the error classification (temporary network conditions).
shouldRetry(e) ==
    /\ e.class = "url"
    /\ ~e.timeout
    /\ \/ e.temporary
       \/ e.inner = "OpError" /\ e.op \in {"dial", "read"}
       \/ e.inner = "Errno" /\ e.op = "ECONNREFUSED"

\* A step of the extraction client leaves the crawler alone.
ExtractorStep ==
    /\ running = "extractor"
    /\ UNCHANGED <<running, crawlerVars, amqpVars>>

ExtractURL == "tika/ipfs/FN"

\* Every response is taken as good.
StatusOK_any(code) == code # 0

\* extractor.go 89: only status 200 is a good response.
StatusOK(code) == code = 200

\* Extract 75-81 calls retryingGet, which starts with retries := 0 (32).
\* A request that cannot be constructed is a programming error (37-41).
ExtractEnter ==
    /\ ExtractorStep
    /\ ePc = "idle"
    /\ \E requestOK \in BOOLEAN :
          ePc' = IF requestOK THEN "Do" ELSE "panicked"
    /\ retries' = 0
    /\ UNCHANGED <<ctxDone, status, eErr, eLog>>

\* retryingGet 34-63: one iteration of the loop up to its sleep.  On a
\* cancelled context client.Do fails at once.
Do ==
    /\ ExtractorStep
    /\ ePc = "Do"
    /\ \E e \in IF ctxDone THEN {ErrCanceled} ELSE {NoError} \cup DoErrors :
          /\ eLog' = Append(eLog, EvDo(ExtractURL, e = NoError))
          /\ IF e = NoError
             THEN /\ \E code \in {200, 500} : status' = code
                  /\ ePc' = "Response"
                  /\ UNCHANGED <<retries, eErr>>
             ELSE IF ~shouldRetry(e)
             THEN /\ ePc' = "done"
                  /\ eErr' = e
                  /\ UNCHANGED <<retries, status>>
             ELSE /\ retries < MaxRetries
                  /\ retries' = retries + 1
                  /\ ePc' = "Sleep"
                  /\ UNCHANGED <<status, eErr>>
    /\ UNCHANGED ctxDone

\* retryingGet 64-65: time.Sleep(e.config.RetryWait) runs to its end, then
\* the loop makes its next attempt.
SleepDone ==
    /\ ExtractorStep
    /\ ePc = "Sleep"
    /\ eLog' = Append(eLog, EvSleep)
    /\ ePc' = "Do"
    /\ UNCHANGED <<retries, ctxDone, status, eErr>>

\* Extract 87-124: the status check and the decoding of the body.
Response ==
    /\ ExtractorStep
    /\ ePc = "Response"
    /\ IF ~StatusOK(status)
       THEN eErr' = ErrStatus
       ELSE \E parsed \in BOOLEAN :
              eErr' = IF parsed THEN NoError ELSE ErrParse
    /\ ePc' = "done"
    /\ UNCHANGED <<retries, ctxDone, status, eLog>>

\* The caller cancels the context it passed to Extract.
Cancel ==
    /\ ExtractorStep
    /\ ePc \notin {"done", "panicked"}
    /\ ~ctxDone
    /\ ctxDone' = TRUE
    /\ eLog' = Append(eLog, EvCancel)
    /\ UNCHANGED <<ePc, retries, status, eErr>>

\* ------------------------------------------------------ broker connection
\* A step of the broker connection leaves the other programs alone.  A panic
\* in any goroutine ends the process.
AmqpStep ==
    /\ running = "amqp"
    /\ "panicked" \notin {mPc, pPc, closer}
    /\ UNCHANGED <<running, crawlerVars, extractorVars>>

\* The number of broker connections dialed so far.
Dialed == Cardinality({id \in 1..MaxConns : conns[id] # "none"})

\* tika.go 69-70: blockChan and closeChan are taken from the connection
\* NewConnection dialed, once, before the watcher starts.
NotifyClose == 1

\* A receive from closeChan (93) can proceed: the connection it was taken
\* from has shut down (the broker library sends the error, if any, and then
\* closes the channel, so that every later receive proceeds too).
CloseChanReady == conns[NotifyClose] = "closed"

\* NewPublisher 192-212: NewConnection (54-120) dials; on failure the error
\* is returned, on success the watcher and the closing goroutine start.
NewPublisher ==
    /\ AmqpStep
    /\ pPc = "idle"
    /\ \E ok \in BOOLEAN :
          IF ok
          THEN /\ conns' = [conns EXCEPT ![1] = "open"]
               /\ conn' = 1
               /\ mPc' = "select"
               /\ closer' = "waiting"
               /\ pPc' = "NewChannelQueue"
          ELSE /\ pPc' = "failed"
               /\ UNCHANGED <<conns, conn, mPc, closer>>
    /\ UNCHANGED <<errCnt, amqpCtxDone, redialsFailed>>

\* NewPublisher 214: conn.NewChannelQueue (152-162) calls Channel (123-149),
\* which calls c.conn.Channel(): a nil c.conn is a nil dereference, a closed
\* connection an error.
NewChannelQueue ==
    /\ AmqpStep
    /\ pPc = "NewChannelQueue"
    /\ IF conn = 0
       THEN pPc' = "panicked"
       ELSE IF conns[conn] = "closed"
       THEN pPc' = "failed"
       ELSE \E ok \in BOOLEAN : pPc' = IF ok THEN "returned" ELSE "failed"
    /\ UNCHANGED <<conns, conn, errCnt, mPc, closer, amqpCtxDone,
                   redialsFailed>>

\* monitorConn 79-82: the context is done; the watcher returns.
MonitorDone ==
    /\ AmqpStep
    /\ mPc = "select"
    /\ amqpCtxDone
    /\ mPc' = "returned"
    /\ UNCHANGED <<conns, conn, errCnt, pPc, closer, amqpCtxDone,
                   redialsFailed>>

\* monitorConn 93-96: a receive from closeChan; the watcher starts its wait.
\* When several cases of the select are ready, any of them may be taken.
MonitorClosed ==
    /\ AmqpStep
    /\ mPc = "select"
    /\ CloseChanReady
    /\ mPc' = "Sleep"
    /\ UNCHANGED <<conns, conn, errCnt, pPc, closer, amqpCtxDone,
                   redialsFailed>>

\* monitorConn 96-113: the wait ends and the watcher redials.  A failed dial
\* panics when errCnt > maxReconnect and is counted otherwise; then c.conn
\* is set to what Dial returned (nil for a failed dial).
MonitorRedial ==
    /\ AmqpStep
    /\ mPc = "Sleep"
    /\ \E ok \in BOOLEAN :
          IF ok
          THEN /\ Dialed < MaxConns
               /\ conns' = [conns EXCEPT ![Dialed + 1] = "open"]
               /\ conn' = Dialed + 1
               /\ mPc' = "select"
               /\ UNCHANGED <<errCnt, redialsFailed>>
          ELSE /\ redialsFailed' = redialsFailed + 1
               /\ IF errCnt > maxReconnect
                  THEN /\ mPc' = "panicked"
                       /\ UNCHANGED <<conn, errCnt>>
                  ELSE /\ errCnt' = errCnt + 1
                       /\ conn' = 0
                       /\ mPc' = "select"
               /\ UNCHANGED conns
    /\ UNCHANGED <<pPc, closer, amqpCtxDone>>

\* NewPublisher 207-212: the closing goroutine, once the context is done,
\* calls conn.Close() (169-171), which is c.conn.Close().
CloseOnDone ==
    /\ AmqpStep
    /\ closer = "waiting"
    /\ amqpCtxDone
    /\ IF conn = 0
       THEN /\ closer' = "panicked"
            /\ UNCHANGED conns
       ELSE /\ closer' = "closed"
            /\ conns' = [conns EXCEPT ![conn] = "closed"]
    /\ UNCHANGED <<conn, errCnt, mPc, pPc, amqpCtxDone, redialsFailed>>

\* The broker or the network ends an open connection.
ConnectionLost ==
    /\ AmqpStep
    /\ \E id \in 1..MaxConns :
          /\ conns[id] = "open"
          /\ conns' = [conns EXCEPT ![id] = "closed"]
    /\ UNCHANGED <<conn, errCnt, mPc, pPc, closer, amqpCtxDone, redialsFailed>>

\* The caller cancels the context it passed to NewPublisher.
CancelContext ==
    /\ AmqpStep
    /\ ~amqpCtxDone
    /\ amqpCtxDone' = TRUE
    /\ UNCHANGED <<conns, conn, errCnt, mPc, pPc, closer, redialsFailed>>

\* ---------------------------------------------------------- specification
Next ==
    \/ \E w \in Workers :
        \/ CrawlHashEnter(w)
        \/ CrawlFileEnter(w)
        \/ IndexReferencesLookup(w)
        \/ IndexReferencesUpdate(w)
        \/ FileList(w)
        \/ HandleErrorPanic(w)
        \/ Sleep(w)
        \/ AddTaskFile(w)
        \/ PublishLink(w)
        \/ IndexDirectory(w)
        \/ GetMetadata(w)
        \/ IndexFile(w)
        \/ Finish(w)
    \/ ExtractEnter
    \/ Do
    \/ SleepDone
    \/ Response
    \/ Cancel
    \/ NewPublisher
    \/ NewChannelQueue
    \/ MonitorDone
    \/ MonitorClosed
    \/ MonitorRedial
    \/ CloseOnDone
    \/ ConnectionLost
    \/ CancelContext

Spec == Init /\ [][Next]_vars


\* ------------------------------------------------------------- properties
IsIndexItem(e) == e.ev = "IndexItem"
IsAttempt(e) == e.ev \in {"FileList", "getMetadata", "Do"}
IsRetryEvent(e) == IsAttempt(e) \/ e.ev = "Sleep"

\* The references a hash without a record gets from one observation.
FirstReferences(a) ==
    IF a.ParentHash = "" THEN <<>>
    ELSE << Reference(a.Name, a.ParentHash) >>

\* C1: every hash is listed by at most one task and extracted by at most one
\* task, whatever the interleaving or repetition of deliveries.
C1_AtMostOnceExpansion ==
    \A h \in Hashes : listed[h] <= 1 /\ extracted[h] <= 1

\* Whether a second index_references call in a row, on the index state the
\* first call left, reports references_updated.
SecondResolveUpdates(idx, a) ==
    LET r1 == index_references(idx, a.Hash, a.Name, a.ParentHash)
        idx1 == IF r1.write
                THEN IndexItem(idx, r1.item_type, a.Hash, r1.properties)
                ELSE idx
    IN  index_references(idx1, a.Hash, a.Name, a.ParentHash).references_updated

WorkItems == HashQueueItems \cup FileQueueItems

\* C2 as stated: in every index state, indexed or not, the second of two
\* index_references calls in a row with the same arguments reports
\* references_updated = false.
C2_ResolveIdempotent ==
    \A a \in WorkItems : ~SecondResolveUpdates(index, a)

\* C2 as amended: for a hash that is already indexed, the second of two
\* index_references calls in a row with the same arguments (the first one
\* having written its update) reports references_updated = false.
C2_ResolveIdempotentIndexed ==
    \A a \in WorkItems :
        index_references(index, a.Hash, a.Name, a.ParentHash).already_indexed
            => ~SecondResolveUpdates(index, a)

\* An indexed hash is observed from a parent it has no reference from: the
\* first call updates the references.
C2_Witness ==
    \E a \in WorkItems :
        LET r == index_references(index, a.Hash, a.Name, a.ParentHash)
        IN  r.already_indexed /\ r.references_updated

\* C3: a task whose item has the partial size and no parent makes no
\* IndexItem call, on the file path and on the directory path.
C3_PartialSkip ==
    \A w \in Workers :
        /\ (/\ op[w] = "CrawlFile"
            /\ args[w].Size = PARTIAL_SIZE
            /\ args[w].ParentHash = "")
           => \A i \in 1..Len(log[w]) : ~IsIndexItem(log[w][i])
        /\ (/\ op[w] = "CrawlHash"
            /\ list[w].Type = "Directory"
            /\ list[w].Size = PARTIAL_SIZE
            /\ args[w].ParentHash = "")
           => \A i \in 1..Len(log[w]) : ~IsIndexItem(log[w][i])

\* Both paths have run to their end: a partial root file and a partial root
\* directory whose links were all published.
C3_Witness ==
    \E w1, w2 \in Workers :
        /\ pc[w1] = "done" /\ op[w1] = "CrawlFile"
        /\ args[w1].Size = PARTIAL_SIZE /\ args[w1].ParentHash = ""
        /\ pc[w2] = "done" /\ op[w2] = "CrawlHash"
        /\ list[w2].Type = "Directory" /\ list[w2].Size = PARTIAL_SIZE
        /\ args[w2].ParentHash = ""
        /\ linkIdx[w2] > Len(list[w2].Links)

\* C4 as stated: CrawlFile on an item larger than METADATA_MAX_SIZE makes no
\* IndexItem call and returns an error, whatever the index holds.
C4_TooLargeNotIndexed ==
    \A w \in Workers :
        (op[w] = "CrawlFile" /\ args[w].Size > METADATA_MAX_SIZE)
        => /\ \A i \in 1..Len(log[w]) : ~IsIndexItem(log[w][i])
           /\ pc[w] = "done" => err[w] # NoError

\* C4 as amended: CrawlFile on an item larger than METADATA_MAX_SIZE whose
\* hash is not already indexed makes no IndexItem call, calls no extraction,
\* and returns an error.
C4_TooLargeNewNotIndexed ==
    \A w \in Workers :
        (/\ op[w] = "CrawlFile"
         /\ args[w].Size > METADATA_MAX_SIZE
         /\ ~already_indexed[w])
        => /\ \A i \in 1..Len(log[w]) :
                ~IsIndexItem(log[w][i]) /\ log[w][i].ev # "getMetadata"
           /\ pc[w] = "done" => err[w] # NoError

\* The lookup found no record and the size check failed the item.
C4_Witness ==
    \E w \in Workers :
        /\ pc[w] = "done" /\ op[w] = "CrawlFile"
        /\ args[w].Size > METADATA_MAX_SIZE
        /\ ~already_indexed[w]
        /\ err[w] = ErrTooLarge
        /\ Len(log[w]) = 1 /\ log[w][1].ok

\* C5: CrawlFile on a zero-size item never calls the extraction service,
\* and when the lookup reports the hash as not indexed its only other call
\* is one IndexItem("file", hash, {size: 0, references}).
C5_ZeroSizeFile ==
    \A w \in Workers :
        (op[w] = "CrawlFile" /\ args[w].Size = 0)
        => /\ \A i \in 1..Len(log[w]) : log[w][i].ev # "getMetadata"
           /\ (/\ pc[w] = "done"
               /\ Len(log[w]) >= 1 /\ log[w][1].ok
               /\ ~already_indexed[w])
              => /\ Len(log[w]) = 2
                 /\ log[w][1] = EvGetReferences(args[w].Hash, TRUE)
                 /\ \E ok \in BOOLEAN :
                      log[w][2] =
                        EvIndexItem("file", args[w].Hash,
                                    Properties(TRUE, FirstReferences(args[w]),
                                               0, FALSE, <<>>, "", ""),
                                    ok)

\* A referenced zero-size file was indexed.
C5_Witness ==
    \E w \in Workers :
        /\ pc[w] = "done" /\ op[w] = "CrawlFile" /\ args[w].Size = 0
        /\ args[w].ParentHash # ""
        /\ ~already_indexed[w]
        /\ Len(log[w]) = 2 /\ log[w][2].ok
        /\ index[args[w].Hash].type = "file"
        /\ index[args[w].Hash].properties.size = 0


\* C6: a task that finds its hash already indexed never lists, extracts or
\* publishes; when the parent is new its only write is one
\* IndexItem(existing type, hash, {references}) with the reference appended,
\* and otherwise it writes nothing.
C6_AlreadyIndexedOnlyPatches ==
    \A w \in Workers :
        already_indexed[w]
        => LET refs == references[w].elems
               n == Len(refs)
               known == \E i \in 1..n : refs[i].ParentHash = args[w].ParentHash
           IN  /\ \A i \in 1..Len(log[w]) :
                    log[w][i].ev \in {"GetReferences", "IndexItem"}
               /\ log[w][1] = EvGetReferences(args[w].Hash, TRUE)
               /\ references_updated[w]
                  => /\ args[w].ParentHash # ""
                     /\ refs[n] = Reference(args[w].Name, args[w].ParentHash)
                     /\ \A i \in 1..(n - 1) :
                          refs[i].ParentHash # args[w].ParentHash
                     /\ item_type[w] # ""
                     /\ pc[w] = "IndexReferences" => Len(log[w]) = 1
                     /\ pc[w] = "done"
                        => /\ Len(log[w]) = 2
                           /\ \E ok \in BOOLEAN :
                                log[w][2] =
                                  EvIndexItem(item_type[w], args[w].Hash,
                                      Properties(TRUE, refs, -1, FALSE, <<>>,
                                                 "", ""), ok)
               /\ ~references_updated[w]
                  => /\ args[w].ParentHash = "" \/ known
                     /\ Len(log[w]) = 1
                     /\ pc[w] = "done" /\ err[w] = NoError

\* An indexed file was observed from a second parent and its record patched.
C6_Witness ==
    \E w \in Workers :
        /\ pc[w] = "done" /\ already_indexed[w] /\ references_updated[w]
        /\ Len(log[w]) = 2 /\ log[w][2].ok
        /\ Len(index[args[w].Hash].properties.references) = 2
        /\ index[args[w].Hash].type = "file"

\* C7: while a directory is expanded, a failed publish of a child is the
\* last call of the task, which returns an error.
C7_PublishFailureAborts ==
    \A w \in Workers :
        \A i \in 1..Len(log[w]) :
            (/\ log[w][i].ev = "AddTask"
             /\ ~log[w][i].ok
             /\ list[w].Type = "Directory")
            => /\ i = Len(log[w])
               /\ pc[w] = "done"
               /\ err[w] # NoError

\* The calls a task made after its last FileList attempt.
AfterList(l) ==
    LET k == CHOOSE i \in 1..Len(l) :
                 /\ l[i].ev = "FileList"
                 /\ \A j \in (i + 1)..Len(l) : l[j].ev # "FileList"
    IN  SubSeq(l, k + 1, Len(l))

\* The publishes the links of directory d call for, in order.
ExpectedPublishes(d) ==
    LET typed == SelectSeq(FileSystem[d].Links,
                           LAMBDA l : l.Type \in {"File", "Directory"})
    IN  [ i \in 1..Len(typed) |->
            EvAddTask(IF typed[i].Type = "File" THEN "fq" ELSE "hq",
                      CrawlerArgs(typed[i].Hash, typed[i].Name,
                                  typed[i].Size, d),
                      TRUE) ]

\* What a finished expansion of directory args[w].Hash must have called:
\* every publish, then unless the partial rule applies one IndexItem.
DirectoryExpanded(w) ==
    LET d == args[w].Hash
        t == AfterList(log[w])
        exp == ExpectedPublishes(d)
        n == Len(exp)
        partial == /\ FileSystem[d].Size = PARTIAL_SIZE
                   /\ args[w].ParentHash = ""
    IN  /\ Len(t) >= n
        /\ SubSeq(t, 1, n) = exp
        /\ IF partial
           THEN Len(t) = n
           ELSE /\ Len(t) = n + 1
                /\ \E ok \in BOOLEAN :
                     t[n + 1] =
                       EvIndexItem("directory", d,
                           Properties(TRUE, FirstReferences(args[w]),
                                      FileSystem[d].Size, TRUE,
                                      FileSystem[d].Links, "", ""), ok)

ListedDirectory(w) ==
    /\ op[w] = "CrawlHash"
    /\ pc[w] = "done"
    /\ list[w].Type = "Directory"

RetryTrace(l) == SelectSeq(l, IsRetryEvent)

Retryable == {ErrTemporary, ErrDial, ErrRead, ErrConnRefused}

\* Attempts and sleeps alternate, starting with an attempt, and a
\* successful attempt is the last one.
RetryLoopShape(R) ==
    /\ \A i \in 1..Len(R) : (i % 2 = 1) <=> IsAttempt(R[i])
    /\ \A i \in 1..Len(R) : (IsAttempt(R[i]) /\ R[i].ok) => i = Len(R)

\* C9: a retry loop sleeps exactly once between consecutive attempts, stops
\* at the first attempt that succeeds and then goes on without an error, and
\* never returns a retryable error: with N-1 retryable failures and then a
\* success there are exactly N attempts and N-1 sleeps.
C9_RetryLoop ==
    /\ \A w \in Workers :
         LET R == RetryTrace(log[w])
             n == Len(R)
         IN  /\ RetryLoopShape(R)
             /\ pc[w] = "done" => err[w] \notin Retryable
             /\ n > 0 =>
                  IF R[n].ev = "Sleep"
                  THEN pc[w] \in {"FileList", "getMetadata"}
                  ELSE IF R[n].ok
                  THEN /\ pc[w] \in {"AddTaskFile", "Links", "IndexFile",
                                     "done"}
                       /\ err[w] \in {NoError, ErrQueue, ErrIndex}
                  ELSE \/ pc[w] = "Sleep"
                       \/ pc[w] \in {"panic", "panicked"}
                       \/ /\ pc[w] = "done"
                          /\ err[w] \notin Retryable \cup {NoError}
    /\ LET R == RetryTrace(eLog)
           n == Len(R)
       IN  /\ RetryLoopShape(R)
           /\ ePc = "done" => eErr \notin Retryable
           /\ n > 0 =>
                IF R[n].ev = "Sleep"
                THEN ePc = "Do"
                ELSE IF R[n].ok
                THEN /\ ePc \in {"Response", "done"}
                     /\ eErr \in {NoError, ErrStatus, ErrParse}
                ELSE \/ ePc = "Sleep"
                     \/ ePc = "done" /\ eErr \notin Retryable \cup {NoError}

\* The extraction of a file failed twice with a retryable error, succeeded
\* on the third attempt, and the file was indexed with the metadata.
C9_Witness ==
    \E w \in Workers :
        LET R == RetryTrace(log[w]) IN
        /\ op[w] = "CrawlFile" /\ pc[w] = "done" /\ err[w] = NoError
        /\ Len(R) = 5 /\ R[5].ok
        /\ index[args[w].Hash].properties.meta = "x"

\* C10: when the context is cancelled while retryingGet waits in back-off
\* (its last attempt failed), the wait is not completed and no further
\* attempt is made.
C10_CancelStopsRetrying ==
    \A i \in 2..Len(eLog) :
        (/\ eLog[i].ev = "Cancel"
         /\ eLog[i - 1].ev = "Do"
         /\ ~eLog[i - 1].ok)
        => \A j \in (i + 1)..Len(eLog) : eLog[j].ev \notin {"Do", "Sleep"}

\* Every reference of the record of h in index state idx is in its record in
\* index state idx2.
ReferencesKept(idx, idx2, h) ==
    \A i \in 1..Len(idx[h].properties.references) :
        \E j \in 1..Len(idx2[h].properties.references) :
            idx2[h].properties.references[j] = idx[h].properties.references[i]

\* C11: a reference that is in the index record of a hash is in that record
\* in every later state: no step of any worker, in any interleaving, removes
\* a reference from a record.
C11_ReferencesNeverLost ==
    [][\A h \in Hashes : ReferencesKept(index, index', h)]_vars

\* C12: the watcher tolerates at most maxReconnect failed redials: whenever
\* more than maxReconnect redials have failed, the process has aborted.
C12_ReconnectCeiling ==
    redialsFailed > maxReconnect => mPc = "panicked"

\* C13: once the Connection exists, c.conn designates a dialed connection in
\* every state, also after a failed redial.
C13_ConnNeverAbsent ==
    mPc # "none" => conn # 0

\* C14: once the closing goroutine has closed the Connection after the
\* cancellation of the context, no broker connection dialed for this
\* Publisher is open, whatever the watcher was doing at that moment.
C14_ClosedAfterCancel ==
    closer = "closed" => \A id \in 1..MaxConns : conns[id] # "open"

\* C15: a task whose index lookup failed has made no other call (no
\* IndexItem, no listing, no extraction, no publish) and has returned the
\* error of the lookup, in CrawlHash and in CrawlFile.
C15_LookupFailureCommitsNothing ==
    \A w \in Workers :
        (Len(log[w]) >= 1 /\ ~log[w][1].ok)
        => /\ log[w] = << EvGetReferences(args[w].Hash, FALSE) >>
           /\ pc[w] = "done"
           /\ err[w] = ErrIndex

\* The lookup failed in a CrawlHash task and in a CrawlFile task; nothing
\* was written or published.
C15_Witness ==
    \E w1, w2 \in Workers :
        /\ op[w1] = "CrawlHash" /\ op[w2] = "CrawlFile"
        /\ \A w \in {w1, w2} :
              /\ pc[w] = "done" /\ err[w] = ErrIndex
              /\ log[w] = << EvGetReferences(args[w].Hash, FALSE) >>
        /\ \A h \in Hashes : ~index[h].found
        /\ fq = <<>> /\ hq = <<>>

\* The class the error classification is documented to give each error:
\* a protocol error is Fatal; a URL error reporting timeout is NonRetryable;
\* a URL error that is temporary, or wraps a dial or read operation error or
\* connection-refused, is Retryable; no error is no failure; every other
\* error is NonRetryable.
DocumentedClass(e) ==
    CASE e = NoError -> "None"
      [] e = ErrProto -> "Fatal"
      [] e = ErrTimeout -> "NonRetryable"
      [] e \in {ErrTemporary, ErrDial, ErrRead, ErrConnRefused} -> "Retryable"
      [] OTHER -> "NonRetryable"

\* What handleError(e) amounts to: abort, retry without error, hand the
\* error back, or nothing to do.
ClassOf(h) ==
    IF h.panic THEN "Fatal"
    ELSE IF h.try_again /\ h.err = NoError THEN "Retryable"
    ELSE IF ~h.try_again /\ h.err # NoError THEN "NonRetryable"
    ELSE IF ~h.try_again /\ h.err = NoError THEN "None"
    ELSE "undocumented"

\* C16: handleError gives every error its documented class and hands a
\* non-retryable error back unchanged, and what a task does after an attempt
\* agrees with that class however many attempts came before: a task that
\* waits for its next attempt holds no error, a task that aborts holds the
\* protocol error, and a task that returned right after a failed attempt
\* returned a NonRetryable error.
C16_Classification ==
    /\ \A e \in {NoError} \cup FileListErrors \cup GetMetadataErrors :
          /\ ClassOf(handleError(e)) = DocumentedClass(e)
          /\ DocumentedClass(e) = "NonRetryable" => handleError(e).err = e
    /\ \A w \in Workers :
          LET R == RetryTrace(log[w])
              n == Len(R)
          IN  /\ tries[w] = Len(SelectSeq(R, LAMBDA x : x.ev = "Sleep"))
                            + (IF pc[w] = "Sleep" THEN 1 ELSE 0)
              /\ pc[w] = "Sleep" => err[w] = NoError
              /\ pc[w] \in {"panic", "panicked"} => err[w] = ErrProto
              /\ (pc[w] = "done" /\ n > 0 /\ ~R[n].ok)
                 => /\ DocumentedClass(err[w]) = "NonRetryable"
                    /\ log[w][Len(log[w])] = R[n]

\* A listing failed with a timeout (which also reports temporary) after two
\* retryable failures, and the task returned the timeout at once.
C16_Witness ==
    \E w \in Workers :
        /\ op[w] = "CrawlHash" /\ pc[w] = "done" /\ err[w] = ErrTimeout
        /\ ErrTimeout.temporary
        /\ tries[w] = MaxRetries
        /\ Len(RetryTrace(log[w])) = 2 * MaxRetries + 1

\* C17: index_references reports a hash as already indexed exactly when the
\* index holds a record for it, whatever the record holds (an empty
\* reference list, or the "invalid" record written after a protocol error).
C17_AlreadyIndexedIffRecord ==
    \A a \in WorkItems :
        index_references(index, a.Hash, a.Name, a.ParentHash).already_indexed
            <=> index[a.Hash].found

\* The record handleError writes for a hash whose call failed with a
\* protocol error.
InvalidRecord == Properties(FALSE, <<>>, -1, FALSE, <<>>, "", "proto")

NoWriteNoPublish(l) ==
    \A i \in 1..Len(l) : l[i].ev \notin {"IndexItem", "AddTask"}

\* C18: a task holds a protocol error only while it aborts: its failed
\* attempt is followed by exactly one IndexItem("invalid", hash, {error})
\* call and by nothing else, whether or not that write succeeded, and the
\* task has made no publish and no other index write.
C18_ProtocolErrorAborts ==
    \A w \in Workers :
        LET l == log[w]
            n == Len(l)
        IN  /\ err[w] = ErrProto => pc[w] \in {"panic", "panicked"}
            /\ pc[w] = "panic"
               => /\ err[w] = ErrProto
                  /\ n >= 2 /\ IsAttempt(l[n]) /\ ~l[n].ok
                  /\ NoWriteNoPublish(l)
            /\ pc[w] = "panicked"
               => /\ err[w] = ErrProto
                  /\ n >= 3 /\ IsAttempt(l[n - 1]) /\ ~l[n - 1].ok
                  /\ \E ok \in BOOLEAN :
                       l[n] = EvIndexItem("invalid", args[w].Hash,
                                          InvalidRecord, ok)
                  /\ NoWriteNoPublish(SubSeq(l, 1, n - 1))

\* Two listings failed with a protocol error after a retry; one poison
\* record was written, the write of the other failed, and both tasks
\* aborted.
C18_Witness ==
    \E w1, w2 \in Workers :
        /\ pc[w1] = "panicked" /\ pc[w2] = "panicked"
        /\ log[w1][Len(log[w1])].ok /\ ~log[w2][Len(log[w2])].ok
        /\ index[args[w1].Hash].type = "invalid"
        /\ tries[w1] > 0
        /\ fq = <<>> /\ hq = <<>>

\* C19: a CrawlHash task whose listing says File makes no IndexItem call and
\* after the listing makes exactly one call: the publish of {hash, name,
\* listed size, parentHash} to the file queue, whose failure it returns.
C19_FileListingQueued ==
    \A w \in Workers :
        (op[w] = "CrawlHash" /\ list[w].Type = "File")
        => LET t == AfterList(log[w])
               a == CrawlerArgs(args[w].Hash, args[w].Name,
                                FileSystem[args[w].Hash].Size,
                                args[w].ParentHash)
           IN  /\ \A i \in 1..Len(log[w]) : ~IsIndexItem(log[w][i])
               /\ pc[w] \in {"AddTaskFile", "done"}
               /\ pc[w] = "AddTaskFile" => t = <<>>
               /\ pc[w] = "done"
                  => \E ok \in BOOLEAN :
                       /\ t = << EvAddTask("fq", a, ok) >>
                       /\ err[w] = IF ok THEN NoError ELSE ErrQueue

\* File FN was listed by two tasks: one published it with its listed size,
\* the publish of the other failed and was returned.
C19_Witness ==
    \E w1, w2 \in Workers :
        /\ \A w \in {w1, w2} :
              op[w] = "CrawlHash" /\ list[w].Type = "File" /\ pc[w] = "done"
        /\ err[w1] = NoError /\ err[w2] = ErrQueue
        /\ fq = << CrawlerArgs("FN", "", 100, "") >>
        /\ hq = <<>>
        /\ ~index["FN"].found

\* C20: a response with a status other than 200 ends the extraction with an
\* error: the request that got it is the last call, nothing sleeps or
\* retries after it, and in the crawler the task returns the error with no
\* IndexItem call.
C20_BadStatusNotRetried ==
    /\ (status # 0 /\ status # 200)
       => LET R == RetryTrace(eLog)
              n == Len(R)
          IN  /\ n > 0 /\ R[n].ev = "Do" /\ R[n].ok
              /\ \A i \in 1..(n - 1) : R[i].ev = "Do" => ~R[i].ok
              /\ ePc \in {"Response", "done"}
              /\ ePc = "done" => eErr = ErrStatus
    /\ \A w \in Workers :
          err[w] = ErrStatus
          => LET l == log[w]
                 n == Len(l)
             IN  /\ pc[w] = "done"
                 /\ n >= 2 /\ l[n].ev = "getMetadata" /\ ~l[n].ok
                 /\ \A i \in 1..n : ~IsIndexItem(l[i])

\* The extraction service answered 500 after one failed attempt: Extract
\* returned the status error and made no further request.
C20_Witness ==
    /\ ePc = "done" /\ status = 500 /\ eErr = ErrStatus
    /\ retries = 1
    /\ Len(SelectSeq(eLog, LAMBDA x : x.ev = "Do")) = 2

\* C21: the watcher leaves its select to redial only when the connection it
\* holds has been lost (or it holds none after a failed redial): it never
\* starts a redial while the connection in c.conn is open.
C21_RedialOnlyOnLoss ==
    [][(mPc = "select" /\ mPc' = "Sleep")
       => (conn = 0 \/ conns[conn] = "closed")]_vars

====
